---------------------------- MODULE Spec2Model ----------------------------
(***************************************************************************)
(* GCSE grade predictor (src/app.py): the grade calculator                 *)
(* (calculate_predicted_grade, calculate_progress) and the student store   *)
(* (students, student_id_counter, load_data, save_data and the Flask       *)
(* handlers get_students, get_student, create_student, delete_student).    *)
(*                                                                         *)
(* Numbers.  JSON numbers and Python floats are modelled as exact          *)
(* rationals [n, d] in lowest terms with d > 0; binary floating-point      *)
(* rounding error is not modelled.                                         *)
(*                                                                         *)
(* Dictionary keys.  Python distinguishes the int key 9 from the str key   *)
(* "9".  A key is [t, v]: t is the Python type ("int" or "str") and v the  *)
(* integer (for a str key: the integer whose decimal text the key is).     *)
(* json.dump writes every key as text, json.load reads every key as str,   *)
(* and int(k) parses the text back.                                        *)
(***************************************************************************)
EXTENDS Integers, Sequences, FiniteSets, TLC

\* students            the students dict (app.py line 10)
\* student_id_counter  the next id (line 11)
\* file                the content of DATA_FILE (line 14)
\* save_error          the last save_data() printed "Error saving data" (46-47)
\* request, response   the request handled last and its response (574-656)
\* issued              the ids returned by create_student so far, in order (643)
\* load_error          load_data() printed "Error loading data" at startup (31-32)
\* threads             the request each server thread is handling, and
\*                     how far it has got (SpecThreads)
\* calc                a call of a GradeCalculator function (49-75), SpecCalc
VARIABLES students, student_id_counter, file, save_error, request, response, issued, load_error, threads, calc

vars == <<students, student_id_counter, file, save_error, request, response, issued, load_error, threads, calc>>

store_vars == <<students, student_id_counter, file, save_error, request, response, issued, load_error, threads>>

---------------------------------------------------------------------------
(* Bounds of the model *)

\* the number of students created in one behaviour
MaxCreates == 3

\* largest number of entries of a generated boundary table
MaxTableSize == 2

---------------------------------------------------------------------------
(* Exact rational arithmetic standing for Python float arithmetic *)

Abs(i) == IF i < 0 THEN -i ELSE i

RECURSIVE GCD(_, _)
GCD(a, b) == IF b = 0 THEN a ELSE GCD(b, a % b)

Rat(n, d) ==
    LET g == GCD(Abs(n), Abs(d))
        s == IF d < 0 THEN -1 ELSE 1
    IN  [n |-> (s * n) \div g, d |-> (s * d) \div g]

Num(i) == [n |-> i, d |-> 1]

RAdd(a, b) == Rat(a.n * b.d + b.n * a.d, a.d * b.d)

RSub(a, b) == Rat(a.n * b.d - b.n * a.d, a.d * b.d)

RMul(a, b) == Rat(a.n * b.n, a.d * b.d)

\* a / b, defined for b # 0 only (Python raises ZeroDivisionError otherwise)
RDiv(a, b) == Rat(a.n * b.d, a.d * b.n)

RLe(a, b) == a.n * b.d <= b.n * a.d

RLt(a, b) == a.n * b.d < b.n * a.d

RMin(a, b) == IF RLe(a, b) THEN a ELSE b

\* the nearest integer to n / d (d > 0), ties to the even neighbour
RoundHalfEven(n, d) ==
    LET q == n \div d
        r == n - q * d
    IN  IF 2 * r < d THEN q
        ELSE IF 2 * r > d THEN q + 1
        ELSE IF q % 2 = 0 THEN q ELSE q + 1

\* Python round(x, 2)
round2(x) == Rat(RoundHalfEven(x.n * 100, x.d), 100)

RECURSIVE sum(_)
sum(s) == IF s = <<>> THEN Num(0) ELSE RAdd(Head(s), sum(Tail(s)))

---------------------------------------------------------------------------
(* Dictionary keys and dictionaries (grade-boundary tables) *)

IntKey(i) == [t |-> "int", v |-> i]

StrKey(i) == [t |-> "str", v |-> i]

\* Python int(k): an int stays, a decimal string is parsed
int(k) == [t |-> "int", v |-> k.v]

\* the key json.dump writes and json.load reads back: always text
json_key(k) == [t |-> "str", v |-> k.v]

\* dict.get(key, default)
dict_get(d, k, default) == IF k \in DOMAIN d THEN d[k] ELSE default

\* a dictionary after json.dump and json.load: keys become str, values stay
json_dict(d) ==
    [k \in {json_key(j) : j \in DOMAIN d} |->
        d[CHOOSE j \in DOMAIN d : json_key(j) = k]]

DEFAULT_GRADE_BOUNDARIES == [k \in {IntKey(g) : g \in 1..9} |-> Num(10 * k.v)]

\* the 'U' (ungraded) return value: a string that is no grade
U == [t |-> "U", v |-> 0]

RECURSIVE DecimalDigits(_)
DecimalDigits(i) ==
    IF i < 10 THEN <<i>> ELSE Append(DecimalDigits(i \div 10), i % 10)

RECURSIVE LexLess(_, _)
LexLess(a, b) ==
    IF b = <<>> THEN FALSE
    ELSE IF a = <<>> THEN TRUE
    ELSE IF Head(a) # Head(b) THEN Head(a) < Head(b)
    ELSE LexLess(Tail(a), Tail(b))

\* Python's < on two keys of one type: numeric on ints, lexicographic on text
KeyLess(a, b) ==
    IF a.t = "int" THEN a.v < b.v
    ELSE LexLess(DecimalDigits(a.v), DecimalDigits(b.v))

---------------------------------------------------------------------------
(* GradeCalculator *)

None == <<>>

Some(x) == <<x>>

AllKeysLessEq(S, m) == \A j \in S : j = m \/ KeyLess(j, m)

\* the keys of S, smallest first (what sorted() without reverse=True yields)
RECURSIVE sorted_ascending(_)
sorted_ascending(S) ==
    IF S = {} THEN <<>>
    ELSE LET m == CHOOSE k \in S : AllKeysLessEq(S, k)
         IN  Append(sorted_ascending(S \ {m}), m)

\* the keys of sorted(grade_boundaries.items(), reverse=True), in order
RECURSIVE sorted_reverse(_)
sorted_reverse(S) ==
    IF S = {} THEN <<>>
    ELSE LET m == CHOOSE k \in S : AllKeysLessEq(S, k)
         IN  <<m>> \o sorted_reverse(S \ {m})

\* the for loop of calculate_predicted_grade over the sorted items
RECURSIVE first_grade_met(_, _, _)
first_grade_met(order, grade_boundaries, weighted_score) ==
    IF order = <<>> THEN U
    ELSE IF RLe(grade_boundaries[Head(order)], weighted_score) THEN Head(order)
    ELSE first_grade_met(Tail(order), grade_boundaries, weighted_score)

\* the weighted score calculate_predicted_grade works with (a local there)
predicted_weighted_score(mock_scores, coursework_score, teacher_assessment) ==
    LET mock_avg == IF mock_scores # <<>>
                    THEN RDiv(sum(mock_scores), Num(Len(mock_scores)))
                    ELSE Num(0)
    IN  IF coursework_score # None
        THEN RAdd(RAdd(RMul(mock_avg, Rat(5, 10)),
                       RMul(coursework_score[1], Rat(3, 10))),
                  RMul(teacher_assessment, Rat(2, 10)))
        ELSE RAdd(RMul(mock_avg, Rat(6, 10)),
                  RMul(teacher_assessment, Rat(4, 10)))

calculate_predicted_grade(mock_scores, coursework_score, teacher_assessment, grade_boundaries) ==
    first_grade_met(sorted_reverse(DOMAIN grade_boundaries), grade_boundaries,
        predicted_weighted_score(mock_scores, coursework_score,
                                 teacher_assessment))

calculate_progress(current_score, target_grade, grade_boundaries) ==
    LET target_score == dict_get(grade_boundaries, int(target_grade), Num(0))
        gap == RSub(target_score, current_score)
    IN  [gap |-> round2(gap),
         on_track |-> RLe(gap, Num(0)),
         percentage_complete |->
            IF RLt(Num(0), target_score)
            THEN RMin(Num(100),
                      round2(RMul(RDiv(current_score, target_score), Num(100))))
            ELSE Num(0)]

---------------------------------------------------------------------------
(* StudentStore: the students dict (insertion-ordered), as a sequence of   *)
(* entries [k |-> key, rec |-> student]                                    *)

dict_keys(d) == {d[i].k : i \in 1..Len(d)}

dict_has(d, k) == k \in dict_keys(d)

dict_at(d, k) == d[CHOOSE i \in 1..Len(d) : d[i].k = k].rec

\* list(d.values())
dict_values(d) == [i \in 1..Len(d) |-> d[i].rec]

\* d[k] = v: an existing key keeps its position, a new key goes last
dict_set(d, k, v) ==
    IF dict_has(d, k)
    THEN [i \in 1..Len(d) |-> IF d[i].k = k THEN [k |-> k, rec |-> v] ELSE d[i]]
    ELSE Append(d, [k |-> k, rec |-> v])

RECURSIVE dict_without(_, _)
dict_without(d, k) ==
    IF d = <<>> THEN <<>>
    ELSE IF Head(d).k = k THEN dict_without(Tail(d), k)
    ELSE <<Head(d)>> \o dict_without(Tail(d), k)

\* d.popitem(): the entry inserted last goes, whatever k is
dict_pop_last(d, k) == SubSeq(d, 1, Len(d) - 1)

\* d.pop(k) for a key that is present: the dict that remains
dict_pop(d, k) == dict_without(d, k)

\* the counter is left as it was
next_student_id_stuck(counter) == counter

\* student_id_counter += 1
next_student_id(counter) == counter + 1

---------------------------------------------------------------------------
(* Persistence: DATA_FILE holds nothing (absent), a JSON document written  *)
(* by save_data, or the left-over of a write that failed part-way          *)

AbsentFile == [kind |-> "absent", students |-> <<>>, next_id |-> 0]

CorruptFile == [kind |-> "corrupt", students |-> <<>>, next_id |-> 0]

\* a student as json.dump writes it and json.load reads it back
json_student(rec) ==
    [rec EXCEPT !.grade_boundaries = json_dict(rec.grade_boundaries)]

\* a document whose next_id is derived from the number of students
json_dump_len(studs, counter) ==
    [kind |-> "json",
     students |-> [i \in 1..Len(studs) |->
                    [k |-> json_key(studs[i].k), rec |-> json_student(studs[i].rec)]],
     next_id |-> Len(studs) + 1]

\* the document json.dump writes ('last_updated', a timestamp, is left out)
json_dump(studs, counter) ==
    [kind |-> "json",
     students |-> [i \in 1..Len(studs) |->
                    [k |-> json_key(studs[i].k), rec |-> json_student(studs[i].rec)]],
     next_id |-> counter]

\* outcomes of the file I/O of save_data: the write succeeds, open() raises
\* (file untouched), or json.dump raises after open() has truncated the file
IOOutcomes == {"ok", "open_raises", "dump_raises"}

\* save_data(): the file and whether the except branch was taken
save_data(studs, counter, old_file, io) ==
    IF io = "ok" THEN [file |-> json_dump(studs, counter), save_error |-> FALSE]
    ELSE IF io = "open_raises" THEN [file |-> old_file, save_error |-> TRUE]
    ELSE [file |-> CorruptFile, save_error |-> TRUE]

\* load_data() with an except branch that prints nothing
load_data_silent(studs, counter, f) ==
    IF f.kind = "absent"
    THEN [students |-> studs, student_id_counter |-> counter, load_error |-> FALSE]
    ELSE IF f.kind = "json"
    THEN [students |-> [i \in 1..Len(f.students) |->
                          [k |-> int(f.students[i].k), rec |-> f.students[i].rec]],
          student_id_counter |-> f.next_id, load_error |-> FALSE]
    ELSE [students |-> <<>>, student_id_counter |-> 1, load_error |-> FALSE]

\* load_data() run on the globals (studs, counter) of a new process: no file,
\* nothing is done; a file that json.load cannot parse, the except branch
\* prints the error and resets both globals (load_error: it printed)
load_data(studs, counter, f) ==
    IF f.kind = "absent"
    THEN [students |-> studs, student_id_counter |-> counter, load_error |-> FALSE]
    ELSE IF f.kind = "json"
    THEN [students |-> [i \in 1..Len(f.students) |->
                          [k |-> int(f.students[i].k), rec |-> f.students[i].rec]],
          student_id_counter |-> f.next_id, load_error |-> FALSE]
    ELSE [students |-> <<>>, student_id_counter |-> 1, load_error |-> TRUE]

---------------------------------------------------------------------------
(* Request bodies of POST /api/students.  has: the fields present in the   *)
(* JSON body.  A grade_boundaries table of a JSON body has str keys.       *)

required_fields == {"name", "subject", "target_grade", "mock_scores", "teacher_assessment"}

Body(has, name, target, mocks, coursework, teacher, boundaries) ==
    [has |-> has, name |-> name, subject |-> "Maths", target_grade |-> target,
     mock_scores |-> mocks, coursework_score |-> coursework,
     teacher_assessment |-> teacher, grade_boundaries |-> boundaries]

NoTable == [k \in {} |-> Num(0)]

CustomTable == [k \in {StrKey(9), StrKey(8), StrKey(7)} |-> Num(10 * k.v)]

SparseTable == [k \in {StrKey(5)} |-> Num(50)]

WithDefaults == required_fields \cup {"coursework_score"}

WithCustom == WithDefaults \cup {"grade_boundaries"}

\* mocks [80, 90], coursework 70, teacher 85, default table
BodyA == Body(WithDefaults, "A", IntKey(9), <<Num(80), Num(90)>>, Some(Num(70)), Num(85), NoTable)

\* mocks [50, 60], no coursework, teacher 70, default table
BodyB == Body(required_fields, "B", IntKey(6), <<Num(50), Num(60)>>, None, Num(70), NoTable)

\* the table the page sends (str keys), target grade 8, score 80
BodyC == Body(WithCustom, "C", IntKey(8), <<Num(80), Num(80)>>, None, Num(80), CustomTable)

\* score 79.996 against the default threshold 80 of target grade 8
BodyD == Body(required_fields, "D", IntKey(8), <<Num(80), Num(80), Rat(7998, 100)>>, None, Num(80), NoTable)

\* empty mock_scores
BodyE == Body(WithDefaults, "E", IntKey(5), <<>>, Some(Num(60)), Num(70), NoTable)

\* teacher_assessment missing
BodyF == Body(required_fields \ {"teacher_assessment"}, "F", IntKey(5), <<Num(50)>>, None, Num(0), NoTable)

\* a table without the target grade, score below every boundary
BodyG == Body(WithCustom, "G", IntKey(9), <<Num(40)>>, None, Num(40), SparseTable)

Bodies == {BodyA, BodyB, BodyC, BodyD, BodyE, BodyF, BodyG}

NoBody == Body({}, "", IntKey(0), <<>>, None, Num(0), NoTable)

StudentIds == 1..(MaxCreates + 1)

Request(op, data, student_id) == [op |-> op, data |-> data, student_id |-> student_id]

Response(status, error, body) == [status |-> status, error |-> error, body |-> body]

---------------------------------------------------------------------------
(* Handlers *)

\* the three-part weights whether or not there is coursework
create_weighted_score_no_redistribution(mock_scores, coursework, teacher_assessment) ==
    LET mock_avg == RDiv(sum(mock_scores), Num(Len(mock_scores)))
        cw == IF coursework # None THEN coursework[1] ELSE Num(0)
    IN  RAdd(RAdd(RMul(mock_avg, Rat(5, 10)), RMul(cw, Rat(3, 10))),
             RMul(teacher_assessment, Rat(2, 10)))

\* the weighted score create_student computes "for display" and stores;
\* evaluated for non-empty mock_scores only (len() = 0 raises before)
create_weighted_score(mock_scores, coursework, teacher_assessment) ==
    LET mock_avg == RDiv(sum(mock_scores), Num(Len(mock_scores)))
    IN  IF coursework # None
        THEN RAdd(RAdd(RMul(mock_avg, Rat(5, 10)), RMul(coursework[1], Rat(3, 10))),
                  RMul(teacher_assessment, Rat(2, 10)))
        ELSE RAdd(RMul(mock_avg, Rat(6, 10)), RMul(teacher_assessment, Rat(4, 10)))

\* data.get('grade_boundaries', DEFAULT_GRADE_BOUNDARIES)
boundaries_of(data) ==
    IF "grade_boundaries" \in data.has THEN data.grade_boundaries
    ELSE DEFAULT_GRADE_BOUNDARIES

\* the student dict create_student builds ('created_at' is left out)
new_student(data, id) ==
    LET grade_boundaries == boundaries_of(data)
        weighted_score == create_weighted_score(data.mock_scores,
                              data.coursework_score, data.teacher_assessment)
    IN  [id |-> id, name |-> data.name, subject |-> data.subject,
         target_grade |-> data.target_grade,
         mock_scores |-> data.mock_scores,
         coursework_score |-> data.coursework_score,
         teacher_assessment |-> data.teacher_assessment,
         grade_boundaries |-> grade_boundaries,
         predicted_grade |-> calculate_predicted_grade(data.mock_scores,
                                 data.coursework_score, data.teacher_assessment,
                                 grade_boundaries),
         weighted_score |-> weighted_score,
         progress |-> calculate_progress(weighted_score, data.target_grade,
                                         grade_boundaries)]

\* POST /api/students with a required field missing: 400
create_missing_field(data) ==
    /\ ~(required_fields \subseteq data.has)
    /\ request' = Request("create", data, 0)
    /\ response' = Response(400, "Missing required field", <<>>)
    /\ UNCHANGED <<students, student_id_counter, file, save_error, issued, load_error, threads, calc>>

\* POST /api/students with empty mock_scores: sum()/len() raises
\* ZeroDivisionError, which handle_errors turns into 500
create_raises(data) ==
    /\ required_fields \subseteq data.has
    /\ data.mock_scores = <<>>
    /\ request' = Request("create", data, 0)
    /\ response' = Response(500, "Internal server error", <<>>)
    /\ UNCHANGED <<students, student_id_counter, file, save_error, issued, load_error, threads, calc>>

\* POST /api/students: the student is stored, the counter moves on, the
\* snapshot is written (io: what the file system does), 201
create_stored(data, io) ==
    /\ required_fields \subseteq data.has
    /\ data.mock_scores # <<>>
    /\ LET student == new_student(data, student_id_counter)
           saved == save_data(students', student_id_counter', file, io)
       IN  /\ students' = dict_set(students, IntKey(student_id_counter), student)
           /\ student_id_counter' = next_student_id(student_id_counter)
           /\ file' = saved.file
           /\ save_error' = saved.save_error
           /\ request' = Request("create", data, 0)
           /\ response' = Response(201, "", <<student>>)
           /\ issued' = Append(issued, student.id)
    /\ UNCHANGED <<load_error, threads, calc>>

create_student ==
    /\ Len(issued) < MaxCreates
    /\ \E data \in Bodies :
          \/ create_missing_field(data)
          \/ create_raises(data)
          \/ \E io \in IOOutcomes : create_stored(data, io)

\* the not-found branch, were it to write the snapshot as well
delete_not_found_saving(student_id) ==
    /\ ~dict_has(students, IntKey(student_id))
    /\ request' = Request("delete", NoBody, student_id)
    /\ response' = Response(404, "Student not found", <<>>)
    /\ file' = json_dump(students, student_id_counter)
    /\ UNCHANGED <<students, student_id_counter, save_error, issued, load_error, threads, calc>>

\* DELETE /api/students/<id> for an id that is not stored: 404
delete_not_found(student_id) ==
    /\ ~dict_has(students, IntKey(student_id))
    /\ request' = Request("delete", NoBody, student_id)
    /\ response' = Response(404, "Student not found", <<>>)
    /\ UNCHANGED <<students, student_id_counter, file, save_error, issued, load_error, threads, calc>>

\* the delete, were a failed write to escape save_data: handle_errors
\* answers 500 after the entry has been removed
delete_found_fatal(student_id, io) ==
    /\ dict_has(students, IntKey(student_id))
    /\ LET deleted == dict_at(students, IntKey(student_id))
           saved == save_data(students', student_id_counter, file, io)
       IN  /\ students' = dict_pop(students, IntKey(student_id))
           /\ file' = saved.file
           /\ save_error' = saved.save_error
           /\ request' = Request("delete", NoBody, student_id)
           /\ response' = IF io = "ok" THEN Response(200, "", <<deleted>>)
                          ELSE Response(500, "Internal server error", <<>>)
    /\ UNCHANGED <<student_id_counter, issued, load_error, threads, calc>>

\* DELETE /api/students/<id> for a stored id: pop, save, 200
delete_found(student_id, io) ==
    /\ dict_has(students, IntKey(student_id))
    /\ LET deleted == dict_at(students, IntKey(student_id))
           saved == save_data(students', student_id_counter, file, io)
       IN  /\ students' = dict_pop(students, IntKey(student_id))
           /\ file' = saved.file
           /\ save_error' = saved.save_error
           /\ request' = Request("delete", NoBody, student_id)
           /\ response' = Response(200, "", <<deleted>>)
    /\ UNCHANGED <<student_id_counter, issued, load_error, threads, calc>>

delete_student ==
    \E student_id \in StudentIds :
        \/ delete_not_found(student_id)
        \/ \E io \in IOOutcomes : delete_found(student_id, io)

\* GET /api/students/<id>
get_student ==
    \E student_id \in StudentIds :
        /\ request' = Request("get", NoBody, student_id)
        /\ response' = IF ~dict_has(students, IntKey(student_id))
                       THEN Response(404, "Student not found", <<>>)
                       ELSE Response(200, "", <<dict_at(students, IntKey(student_id))>>)
        /\ UNCHANGED <<students, student_id_counter, file, save_error, issued, load_error, threads, calc>>

\* GET /api/students
get_students ==
    /\ request' = Request("list", NoBody, 0)
    /\ response' = Response(200, "", dict_values(students))
    /\ UNCHANGED <<students, student_id_counter, file, save_error, issued, load_error, threads, calc>>

\* the process ends and is started again: the module globals are set anew
\* (students = {}, student_id_counter = 1) and __main__ calls load_data()
restart ==
    /\ LET loaded == load_data(<<>>, 1, file)
       IN  /\ students' = loaded.students
           /\ student_id_counter' = loaded.student_id_counter
           /\ load_error' = loaded.load_error
    /\ save_error' = FALSE
    /\ request' = Request("start", NoBody, 0)
    /\ response' = Response(0, "", <<>>)
    /\ UNCHANGED <<file, issued, threads, calc>>

---------------------------------------------------------------------------
(* Specifications *)

NoProgress == [gap |-> Num(0), on_track |-> FALSE, percentage_complete |-> Num(0)]

\* calc: one call of a GradeCalculator function, its arguments and, once
\* done, its result
Calc(fn, args, current_score) ==
    [fn |-> fn, args |-> args, current_score |-> current_score, done |-> FALSE,
     grade |-> U, progress |-> NoProgress]

CalcIdle == Calc("none", NoBody, Num(0))

\* a server thread that handles no request
IdleThread == [pc |-> "idle", op |-> "none", data |-> NoBody, student_id |-> 0, student |-> <<>>, counter |-> 0, deleted |-> {}]

NoThreads == [t \in {} |-> IdleThread]

\* a fresh store: no data file, the process has just started and load_data()
\* has run
Init ==
    /\ file = AbsentFile
    /\ LET loaded == load_data(<<>>, 1, file)
       IN  /\ students = loaded.students
           /\ student_id_counter = loaded.student_id_counter
           /\ load_error = loaded.load_error
    /\ save_error = FALSE
    /\ request = Request("start", NoBody, 0)
    /\ response = Response(0, "", <<>>)
    /\ issued = <<>>
    /\ threads = NoThreads
    /\ calc = CalcIdle

Next ==
    \/ create_student
    \/ delete_student
    \/ get_student
    \/ get_students

Spec == Init /\ [][Next]_vars

NextRestart ==
    \/ create_student
    \/ delete_student
    \/ get_student
    \/ get_students
    \/ restart

SpecRestart == Init /\ [][NextRestart]_vars

---------------------------------------------------------------------------
(* The GradeCalculator functions applied to generated arguments *)

Grades == 1..9

CalcThresholds == {Num(61), Num(80)}

\* every table with at most MaxTableSize entries over the grades 1..9, with
\* int keys (as in DEFAULT_GRADE_BOUNDARIES) or str keys (as in a JSON body)
CalcTables ==
    UNION { [ {[t |-> ty, v |-> g] : g \in K} -> CalcThresholds ] :
              K \in {S \in SUBSET Grades : Cardinality(S) <= MaxTableSize},
              ty \in {"int", "str"} }
    \cup {DEFAULT_GRADE_BOUNDARIES}

CalcMocks ==
    { <<>>, <<Num(80)>>, <<Num(80), Num(90)>>, <<Num(50), Num(60)>>,
      <<Num(80), Num(80), Rat(7998, 100)>> }

CalcCoursework == {None, Some(Num(70))}

CalcTeacher == {Num(70), Num(80), Num(85)}

CalcScores == {Num(0), Num(61), Rat(79996, 1000), Num(80), Rat(805, 10), Num(100)}

CalcTargets == {IntKey(8), IntKey(9), IntKey(10)}

CalcGradeCalls ==
    { Calc("grade", Body(WithCustom, "", IntKey(0), m, c, ta, gb), Num(0)) :
        m \in CalcMocks, c \in CalcCoursework, ta \in CalcTeacher, gb \in CalcTables }

CalcProgressCalls ==
    { Calc("progress", Body(WithCustom, "", tg, <<>>, None, Num(0), gb), sc) :
        tg \in CalcTargets, gb \in CalcTables, sc \in CalcScores }

InitCalc ==
    /\ students = <<>>
    /\ student_id_counter = 1
    /\ file = AbsentFile
    /\ save_error = FALSE
    /\ request = Request("start", NoBody, 0)
    /\ response = Response(0, "", <<>>)
    /\ issued = <<>>
    /\ load_error = FALSE
    /\ threads = NoThreads
    /\ calc \in CalcGradeCalls \cup CalcProgressCalls

call_calculate_predicted_grade ==
    /\ calc.fn = "grade"
    /\ ~calc.done
    /\ calc' = [calc EXCEPT !.done = TRUE,
                  !.grade = calculate_predicted_grade(calc.args.mock_scores,
                                calc.args.coursework_score,
                                calc.args.teacher_assessment,
                                calc.args.grade_boundaries)]
    /\ UNCHANGED store_vars

call_calculate_progress ==
    /\ calc.fn = "progress"
    /\ ~calc.done
    /\ calc' = [calc EXCEPT !.done = TRUE,
                  !.progress = calculate_progress(calc.current_score,
                                   calc.args.target_grade,
                                   calc.args.grade_boundaries)]
    /\ UNCHANGED store_vars

NextCalc ==
    \/ call_calculate_predicted_grade
    \/ call_calculate_progress

SpecCalc == InitCalc /\ [][NextCalc]_vars

---------------------------------------------------------------------------
(* Requests handled by concurrent server threads.  app.run() starts the    *)
(* development server, which handles every request in a thread of its own; *)
(* the handlers take no lock.  A thread can be preempted between any two   *)
(* accesses to the globals students, student_id_counter and to DATA_FILE:  *)
(* each action below is one such access by thread t.  The fields of        *)
(* threads[t]: pc, where the thread is; op, data, student_id, its request; *)
(* student, the local variable student / deleted; counter, a value of      *)
(* student_id_counter the thread has read; deleted, the ids it deleted.    *)

\* the number of server threads
NumThreads == 2

Threads == 1..NumThreads

\* the number of students created by the threads in one behaviour
MaxThreadCreates == 2

\* the request bodies the threads are given: two that are stored, one
\* with empty mock_scores, one with a field missing
ThreadBodies == {BodyA, BodyC, BodyE, BodyF}

ThreadStudentIds == 1..(MaxThreadCreates + 1)

CreatesInProgress == Cardinality({t \in Threads : threads[t].op = "create"})

\* thread t answers at once: the request is over
thread_answers(t, req, resp) ==
    /\ request' = req
    /\ response' = resp
    /\ threads' = [threads EXCEPT ![t] = [IdleThread EXCEPT !.deleted = threads[t].deleted]]

\* create_student up to the student dict, whose 'id' is student_id_counter
\* as read now (line 623); a missing field or empty mock_scores ends it
thread_create_begin(t, data) ==
    /\ threads[t].pc = "idle"
    /\ Len(issued) + CreatesInProgress < MaxThreadCreates
    /\ IF ~(required_fields \subseteq data.has)
       THEN thread_answers(t, Request("create", data, 0),
                           Response(400, "Missing required field", <<>>))
       ELSE IF data.mock_scores = <<>>
       THEN thread_answers(t, Request("create", data, 0),
                           Response(500, "Internal server error", <<>>))
       ELSE /\ threads' = [threads EXCEPT ![t] =
                  [@ EXCEPT !.pc = "create_store", !.op = "create", !.data = data,
                            !.student = <<new_student(data, student_id_counter)>>]]
            /\ UNCHANGED <<request, response>>
    /\ UNCHANGED <<students, student_id_counter, file, save_error, issued, load_error, calc>>

\* students[student_id_counter] = student, the counter as read now (line 637)
thread_create_store(t) ==
    /\ threads[t].pc = "create_store"
    /\ students' = dict_set(students, IntKey(student_id_counter), threads[t].student[1])
    /\ threads' = [threads EXCEPT ![t].pc = "create_incr_load"]
    /\ UNCHANGED <<student_id_counter, file, save_error, request, response, issued, load_error, calc>>

\* student_id_counter += 1, the load of the global (line 638)
thread_create_incr_load(t) ==
    /\ threads[t].pc = "create_incr_load"
    /\ threads' = [threads EXCEPT ![t].pc = "create_incr_store",
                                  ![t].counter = student_id_counter]
    /\ UNCHANGED <<students, student_id_counter, file, save_error, request, response, issued, load_error, calc>>

\* student_id_counter += 1, the store of the sum (line 638)
thread_create_incr_store(t) ==
    /\ threads[t].pc = "create_incr_store"
    /\ student_id_counter' = next_student_id(threads[t].counter)
    /\ threads' = [threads EXCEPT ![t].pc = "save_build"]
    /\ UNCHANGED <<students, file, save_error, request, response, issued, load_error, calc>>

\* delete_student: the membership test (line 648)
thread_delete_begin(t, student_id) ==
    /\ threads[t].pc = "idle"
    /\ IF ~dict_has(students, IntKey(student_id))
       THEN thread_answers(t, Request("delete", NoBody, student_id),
                           Response(404, "Student not found", <<>>))
       ELSE /\ threads' = [threads EXCEPT ![t] =
                  [@ EXCEPT !.pc = "delete_pop", !.op = "delete",
                            !.student_id = student_id]]
            /\ UNCHANGED <<request, response>>
    /\ UNCHANGED <<students, student_id_counter, file, save_error, issued, load_error, calc>>

\* deleted = students.pop(student_id) (line 651); the KeyError of a key that
\* went away since the test is answered 404 by handle_errors
thread_delete_pop(t) ==
    /\ threads[t].pc = "delete_pop"
    /\ IF dict_has(students, IntKey(threads[t].student_id))
       THEN /\ students' = dict_pop(students, IntKey(threads[t].student_id))
            /\ threads' = [threads EXCEPT ![t] =
                  [@ EXCEPT !.pc = "save_build",
                            !.student = <<dict_at(students, IntKey(threads[t].student_id))>>,
                            !.deleted = @ \cup {threads[t].student_id}]]
            /\ UNCHANGED <<request, response>>
       ELSE /\ thread_answers(t, Request("delete", NoBody, threads[t].student_id),
                              Response(404, "Student not found", <<>>))
            /\ UNCHANGED students
    /\ UNCHANGED <<student_id_counter, file, save_error, issued, load_error, calc>>

\* save_data: the data dict is built; 'next_id' is the counter as read now,
\* 'students' a reference to the global dict (lines 39-43)
thread_save_build(t) ==
    /\ threads[t].pc = "save_build"
    /\ threads' = [threads EXCEPT ![t].pc = "save_write",
                                  ![t].counter = student_id_counter]
    /\ UNCHANGED <<students, student_id_counter, file, save_error, request, response, issued, load_error, calc>>

\* save_data: open and json.dump (lines 44-47), the students dict as it is
\* now; the writes of two threads are taken not to overlap
thread_save_write(t, io) ==
    /\ threads[t].pc = "save_write"
    /\ LET saved == save_data(students, threads[t].counter, file, io)
       IN  /\ file' = saved.file
           /\ save_error' = saved.save_error
    /\ threads' = [threads EXCEPT ![t].pc = "respond"]
    /\ UNCHANGED <<students, student_id_counter, request, response, issued, load_error, calc>>

\* return jsonify(student), 201 / return jsonify({..., 'student': deleted}), 200
thread_respond(t) ==
    /\ threads[t].pc = "respond"
    /\ IF threads[t].op = "create"
       THEN /\ thread_answers(t, Request("create", threads[t].data, 0),
                              Response(201, "", threads[t].student))
            /\ issued' = Append(issued, threads[t].student[1].id)
       ELSE /\ thread_answers(t, Request("delete", NoBody, threads[t].student_id),
                              Response(200, "", threads[t].student))
            /\ UNCHANGED issued
    /\ UNCHANGED <<students, student_id_counter, file, save_error, load_error, calc>>

InitThreads ==
    /\ file = AbsentFile
    /\ LET loaded == load_data(<<>>, 1, file)
       IN  /\ students = loaded.students
           /\ student_id_counter = loaded.student_id_counter
           /\ load_error = loaded.load_error
    /\ save_error = FALSE
    /\ request = Request("start", NoBody, 0)
    /\ response = Response(0, "", <<>>)
    /\ issued = <<>>
    /\ threads = [t \in Threads |-> IdleThread]
    /\ calc = CalcIdle

NextThreads ==
    \/ \E t \in Threads : \E data \in ThreadBodies : thread_create_begin(t, data)
    \/ \E t \in Threads : thread_create_store(t)
    \/ \E t \in Threads : thread_create_incr_load(t)
    \/ \E t \in Threads : thread_create_incr_store(t)
    \/ \E t \in Threads : \E student_id \in ThreadStudentIds : thread_delete_begin(t, student_id)
    \/ \E t \in Threads : thread_delete_pop(t)
    \/ \E t \in Threads : thread_save_build(t)
    \/ \E t \in Threads : \E io \in IOOutcomes : thread_save_write(t, io)
    \/ \E t \in Threads : thread_respond(t)

SpecThreads == InitThreads /\ [][NextThreads]_vars

---------------------------------------------------------------------------
(* Properties of the store *)

StoredIds == {students[i].k.v : i \in 1..Len(students)}

\* two tables with the same grades and thresholds, whatever the key type
SameTable(x, y) ==
    {<<k.v, x[k]>> : k \in DOMAIN x} = {<<k.v, y[k]>> : k \in DOMAIN y}

\* two students equal in every field, the tables compared by SameTable
SameStudent(a, b) ==
    /\ [a EXCEPT !.grade_boundaries = NoTable] = [b EXCEPT !.grade_boundaries = NoTable]
    /\ SameTable(a.grade_boundaries, b.grade_boundaries)

\* the data file holds the students dict (ids as decimal text, in the same
\* order) and the counter
FileMatchesMemory ==
    /\ file.kind = "json"
    /\ file.next_id = student_id_counter
    /\ Len(file.students) = Len(students)
    /\ \A i \in 1..Len(students) :
          /\ file.students[i].k = [t |-> "str", v |-> students[i].k.v]
          /\ SameStudent(file.students[i].rec, students[i].rec)

\* C1: from a fresh store, every create returns an id greater than every id
\* returned before, the first being 1; ids are unique, a deleted id is never
\* assigned again, and every stored student sits under the key equal to its
\* id, which is smaller than the counter.
C1_IdsStrictlyIncreasing ==
    /\ \A i \in 1..Len(issued) : \A j \in 1..Len(issued) :
          i < j => issued[i] < issued[j]
    /\ Len(issued) > 0 => issued[1] = 1
    /\ \A i \in 1..Len(issued) : issued[i] < student_id_counter
    /\ \A i \in 1..Len(students) :
          /\ students[i].k = [t |-> "int", v |-> students[i].rec.id]
          /\ students[i].rec.id < student_id_counter
          /\ \E j \in 1..Len(issued) : issued[j] = students[i].rec.id
    /\ \A i \in 1..Len(students) : \A j \in 1..Len(students) :
          students[i].k = students[j].k => i = j

\* a create that follows a delete: ids 1 and 2 were returned, 1 was deleted,
\* and the create handled last returned 3
C1_Witness ==
    /\ issued = <<1, 2, 3>>
    /\ StoredIds = {2, 3}
    /\ request.op = "create"
    /\ response.status = 201
    /\ response.body[1].id = 3

\* C2 as stated: once a create or delete has returned successfully, the data
\* file equals the memory at every point between two operations.
C2_SnapshotAlwaysCurrent ==
    Len(issued) > 0 => FileMatchesMemory

\* C2 amended: the same, while the last save_data() did not fail.
C2_SnapshotCurrentUnlessSaveFailed ==
    (Len(issued) > 0 /\ ~save_error) => FileMatchesMemory

\* a delete has returned 200 after writing the file; two students remain
C2_Witness ==
    /\ request.op = "delete"
    /\ response.status = 200
    /\ ~save_error
    /\ Len(students) = 2
    /\ FileMatchesMemory

\* C3: a restart that loads the file save_data wrote for the present memory
\* gives back the same students dict (ids, students with their tables,
\* order) and the same counter.
C3_SaveLoadRoundTrip ==
    [][(request'.op = "start" /\ file = json_dump(students, student_id_counter))
        => (students' = students /\ student_id_counter' = student_id_counter)]_vars

\* C4: a delete of an id that is not stored answers 404 "Student not found"
\* and changes neither the students dict, nor the counter, nor the data file.
C4_DeleteUnknownChangesNothing ==
    [][(request'.op = "delete" /\ request'.student_id \notin StoredIds)
        => /\ response'.status = 404
           /\ response'.status # 500
           /\ response'.error = "Student not found"
           /\ students' = students
           /\ student_id_counter' = student_id_counter
           /\ file' = file]_vars

\* a delete of an unknown id was answered 404 while the store holds students
\* and the data file is behind the memory
C4_Witness ==
    /\ request.op = "delete"
    /\ response.status = 404
    /\ students # <<>>
    /\ save_error
    /\ ~FileMatchesMemory

\* C5: a delete of a stored id returns the removed student and removes that
\* entry only: the other entries, their order and the counter stay; from
\* then on the id stays absent, get answers 404 for it and the listing is
\* the stored students, without it.
C5_DeleteRemovesExactlyOne ==
    [][/\ (request'.op = "delete" /\ request'.student_id \in StoredIds) =>
            /\ response'.status = 200
            /\ response'.body = <<dict_at(students, [t |-> "int", v |-> request'.student_id])>>
            /\ students' = SelectSeq(students, LAMBDA e : e.k.v # request'.student_id)
            /\ student_id_counter' = student_id_counter
       /\ \A id \in 1..(student_id_counter - 1) :
            id \notin StoredIds => id \notin {students'[i].k.v : i \in 1..Len(students')}
       /\ request'.op = "get" =>
            (response'.status = 404 <=> request'.student_id \notin StoredIds)
       /\ request'.op = "list" =>
            /\ response'.body = [i \in 1..Len(students) |-> students[i].rec]
            /\ \A i \in 1..Len(response'.body) : response'.body[i].id \in StoredIds
      ]_vars

\* the middle one of three students was deleted and a later get of its id
\* was answered 404
C5_Witness ==
    /\ issued = <<1, 2, 3>>
    /\ StoredIds = {1, 3}
    /\ students[1].rec.id = 1
    /\ request.op = "get"
    /\ request.student_id = 2
    /\ response.status = 404

---------------------------------------------------------------------------
(* Properties of the calculator *)

\* the weighted score as the specification defines it
WeightedScoreOf(mock_scores, coursework_score, teacher_assessment) ==
    LET mockAverage == IF Len(mock_scores) = 0 THEN Num(0)
                       ELSE RDiv(sum(mock_scores), Num(Len(mock_scores)))
    IN  IF coursework_score = None
        THEN RAdd(RMul(Rat(3, 5), mockAverage), RMul(Rat(2, 5), teacher_assessment))
        ELSE RAdd(RAdd(RMul(Rat(1, 2), mockAverage),
                       RMul(Rat(3, 10), coursework_score[1])),
                  RMul(Rat(1, 5), teacher_assessment))

\* the grades of a table whose boundary is at or below the score
GradesMet(score, table) == {k \in DOMAIN table : RLe(table[k], score)}

\* grade is the numerically highest grade met, or 'U' when none is met
IsHighestGradeMet(grade, score, table) ==
    IF GradesMet(score, table) = {} THEN grade = U
    ELSE /\ grade \in GradesMet(score, table)
         /\ \A j \in GradesMet(score, table) : j.v <= grade.v

\* C6: for every score and every table over the grades 1..9 (monotonic or
\* not, empty or not) calculate_predicted_grade returns the numerically
\* highest grade whose boundary is at or below the score (equality counts),
\* and 'U' exactly when there is no such grade.
C6_HighestGradeMet ==
    (calc.fn = "grade" /\ calc.done) =>
        LET score == WeightedScoreOf(calc.args.mock_scores,
                         calc.args.coursework_score, calc.args.teacher_assessment)
        IN  /\ IsHighestGradeMet(calc.grade, score, calc.args.grade_boundaries)
            /\ calc.grade = U <=> GradesMet(score, calc.args.grade_boundaries) = {}

\* a table that is not monotonic, with a score exactly at the boundary of
\* the grade returned and below the boundary of a lower grade
C6_Witness ==
    /\ calc.fn = "grade"
    /\ calc.done
    /\ calc.grade # U
    /\ calc.args.grade_boundaries[calc.grade] =
          WeightedScoreOf(calc.args.mock_scores, calc.args.coursework_score,
                          calc.args.teacher_assessment)
    /\ \E j \in DOMAIN calc.args.grade_boundaries :
          /\ j.v < calc.grade.v
          /\ RLt(calc.args.grade_boundaries[calc.grade], calc.args.grade_boundaries[j])

\* the threshold a table assigns to a grade, 0 when it has no entry for it
ThresholdOf(table, grade) ==
    IF \E k \in DOMAIN table : k.v = grade.v
    THEN table[CHOOSE k \in DOMAIN table : k.v = grade.v]
    ELSE Num(0)

\* C7: the progress of every stored student is computed against the
\* threshold its own table (default or custom) assigns to its target grade,
\* which is 0 only when the table has no entry for that grade.
C7_ProgressAgainstOwnTable ==
    \A i \in 1..Len(students) :
        LET rec == students[i].rec
            targetThreshold == ThresholdOf(rec.grade_boundaries, rec.target_grade)
        IN  /\ rec.progress.gap = round2(RSub(targetThreshold, rec.weighted_score))
            /\ rec.progress.percentage_complete =
                  IF RLe(targetThreshold, Num(0)) THEN Num(0)
                  ELSE RMin(Num(100), round2(RMul(RDiv(rec.weighted_score,
                                                     targetThreshold), Num(100))))

\* C8: a create with every required field and empty mock_scores completes
\* (201) and stores a student whose weighted score comes from a mock
\* average of 0.
C8_EmptyMocksTolerated ==
    (/\ request.op = "create"
     /\ required_fields \subseteq request.data.has
     /\ request.data.mock_scores = <<>>)
    => /\ response.status = 201
       /\ Len(response.body) = 1
       /\ response.body[1].weighted_score =
             WeightedScoreOf(<<>>, request.data.coursework_score,
                             request.data.teacher_assessment)
       /\ response.body[1].id \in StoredIds

\* C9: the weighted_score of every stored student is 0.5 mockAverage + 0.3
\* coursework + 0.2 teacher with coursework and 0.6 mockAverage + 0.4
\* teacher without, unclamped, and its predicted_grade is the highest grade
\* met by that stored score in its own table; mocks [80, 90], coursework 70,
\* teacher 85 give 80.5 and grade 8, mocks [50, 60], no coursework, teacher
\* 70 give 61 and grade 6 (default table).
C9_StoredScoreAndGrade ==
    \A i \in 1..Len(students) :
        LET rec == students[i].rec
        IN  /\ rec.weighted_score = WeightedScoreOf(rec.mock_scores,
                                        rec.coursework_score, rec.teacher_assessment)
            /\ IsHighestGradeMet(rec.predicted_grade, rec.weighted_score,
                                 rec.grade_boundaries)
            /\ (/\ rec.mock_scores = <<Num(80), Num(90)>>
                /\ rec.coursework_score = <<Num(70)>>
                /\ rec.teacher_assessment = Num(85)
                /\ rec.grade_boundaries = DEFAULT_GRADE_BOUNDARIES)
               => (rec.weighted_score = Rat(805, 10) /\ rec.predicted_grade.v = 8)
            /\ (/\ rec.mock_scores = <<Num(50), Num(60)>>
                /\ rec.coursework_score = None
                /\ rec.teacher_assessment = Num(70)
                /\ rec.grade_boundaries = DEFAULT_GRADE_BOUNDARIES)
               => (rec.weighted_score = Num(61) /\ rec.predicted_grade.v = 6)

\* the two examples are stored, one with and one without coursework, next
\* to a student with a custom table
C9_Witness ==
    /\ Len(students) = 3
    /\ \E i \in 1..3 : students[i].rec.weighted_score = Rat(805, 10)
                        /\ students[i].rec.coursework_score # None
    /\ \E i \in 1..3 : students[i].rec.weighted_score = Num(61)
                        /\ students[i].rec.coursework_score = None
    /\ \E i \in 1..3 : students[i].rec.grade_boundaries = CustomTable

\* C10: on_track is true exactly when the reported (rounded) gap is at or
\* below 0, and a score equal to the target threshold gives gap 0, on_track
\* true and (for a threshold above 0) percentage_complete 100.
C10_OnTrackIffGapNotPositive ==
    (calc.fn = "progress" /\ calc.done) =>
        LET table == calc.args.grade_boundaries
            targetThreshold == IF calc.args.target_grade \in DOMAIN table
                               THEN table[calc.args.target_grade] ELSE Num(0)
        IN  /\ calc.progress.on_track <=> RLe(calc.progress.gap, Num(0))
            /\ calc.current_score = targetThreshold =>
                  /\ calc.progress.gap = Num(0)
                  /\ calc.progress.on_track
                  /\ RLt(Num(0), targetThreshold) =>
                        calc.progress.percentage_complete = Num(100)

---------------------------------------------------------------------------
(* Properties of startup and of failed writes *)

\* C11 as stated: after a start with the data file absent or unparsable the
\* store is empty with counter 1 and the condition has been logged.
C11_LoadFailureLogged ==
    (request.op = "start" /\ file.kind # "json") =>
        /\ students = <<>>
        /\ student_id_counter = 1
        /\ load_error

\* C11 amended: after a start with the data file absent or unparsable the
\* store is empty with counter 1; an unparsable file has been logged, an
\* absent file has not.
C11_LoadNeverFails ==
    (request.op = "start" /\ file.kind # "json") =>
        /\ students = <<>>
        /\ student_id_counter = 1
        /\ load_error <=> file.kind = "corrupt"

\* a process that had created students is started again on a data file
\* that a failed write left truncated
C11_Witness ==
    /\ request.op = "start"
    /\ file.kind = "corrupt"
    /\ Len(issued) > 0
    /\ students = <<>>
    /\ student_id_counter = 1
    /\ load_error

\* C12: a write that fails inside create or delete is not fatal and rolls
\* nothing back: the operation answers 201 / 200 with its normal body, the
\* students dict and the counter keep the change, later get / list / create
\* / delete work on the memory, not on the file, and the next write that
\* succeeds makes the file match the memory again.
C12_FailedWriteNotFatal ==
    [][/\ (students' # students /\ save_error') =>
            /\ response'.status \in {200, 201}
            /\ Len(response'.body) = 1
            /\ file' = file \/ file'.kind = "corrupt"
            /\ request'.op = "create" =>
                  /\ response'.status = 201
                  /\ student_id_counter' = student_id_counter + 1
                  /\ students' = Append(students,
                        [k |-> [t |-> "int", v |-> response'.body[1].id],
                         rec |-> response'.body[1]])
            /\ request'.op = "delete" =>
                  /\ response'.status = 200
                  /\ student_id_counter' = student_id_counter
                  /\ \E i \in 1..Len(students) :
                        /\ students[i].rec = response'.body[1]
                        /\ students[i].k.v = request'.student_id
                  /\ request'.student_id \notin {students'[i].k.v : i \in 1..Len(students')}
       /\ (request'.op = "create" /\ response'.status = 201) =>
            response'.body[1].id = student_id_counter
       /\ (request'.op = "delete" /\ students' = students) =>
            (response'.status = 404 /\ request'.student_id \notin StoredIds)
       /\ request'.op = "get" =>
            IF request'.student_id \in StoredIds
            THEN /\ response'.status = 200
                 /\ \E i \in 1..Len(students) :
                       /\ students[i].k.v = request'.student_id
                       /\ response'.body = <<students[i].rec>>
            ELSE response'.status = 404
       /\ request'.op = "list" =>
            response'.body = [i \in 1..Len(students) |-> students[i].rec]
       /\ (students' # students /\ ~save_error') => FileMatchesMemory'
      ]_vars

\* a delete answered 200 although its write failed: the entry is gone from
\* the memory and still in the data file
C12_Witness ==
    /\ request.op = "delete"
    /\ response.status = 200
    /\ save_error
    /\ request.student_id \notin StoredIds
    /\ file.kind = "json"
    /\ \E i \in 1..Len(file.students) : file.students[i].k.v = request.student_id

---------------------------------------------------------------------------
(* Properties of concurrent requests *)

AllThreadsIdle == \A t \in DOMAIN threads : threads[t].pc = "idle"

\* the number of deletes answered 200 by the threads of T
RECURSIVE DeletesDone(_)
DeletesDone(T) ==
    IF T = {} THEN 0
    ELSE LET t == CHOOSE u \in T : TRUE
         IN  Cardinality(threads[t].deleted) + DeletesDone(T \ {t})

\* C13: with create and delete requests handled by concurrent threads, under
\* every interleaving no two creates return the same id, no student is
\* stored under a key other than its id, no create is lost (once every
\* request is over, there are as many students as creates answered 201
\* less deletes answered 200), and
\* the final data file matches the final memory (when the last write did not
\* fail).
C13_ConcurrentRequestsSerialised ==
    /\ \A i \in 1..Len(issued) : \A j \in 1..Len(issued) :
          i # j => issued[i] # issued[j]
    /\ \A i \in 1..Len(students) : students[i].k.v = students[i].rec.id
    /\ AllThreadsIdle =>
          Len(students) = Len(issued) - DeletesDone(DOMAIN threads)
    /\ (AllThreadsIdle /\ Len(issued) > 0 /\ ~save_error) => FileMatchesMemory

====
